---- MODULE Spec2Model ----
(***************************************************************************)
(* Decoding and scoring engine of kirigami: the scoring function           *)
(* get_scores and the evaluation-time decoder binarize of scripts/train.py,*)
(* and the post-processing layers of kirigami/layers.py (Symmetrize,       *)
(* RemoveSharp, Canonicalize, Greedy, Dynamic, Blossom).                   *)
(*                                                                         *)
(* Conventions.  Indices are 0-based as in the source.  A matrix is a      *)
(* function [0..n-1 -> [0..n-1 -> Int]], read M[row][col].  Scores are     *)
(* integers; raw inputs of the layers are even, so that the halving of     *)
(* Symmetrize is exact, as it is in floating point for such values.  A     *)
(* pair set is a set of tuples <<i, j>>.                                   *)
(***************************************************************************)
EXTENDS Integers, Sequences, FiniteSets, TLC

VARIABLES
    pc,          \* position of the call under study
    \* get_scores
    prd_pairs, grd_pairs, seq_len, scores,
    \* binarize
    lab_, seq, thres_pairs, thres_prob, min_dist, symmetrize, canonicalize,
    lab, kept, out_count, out_set, out_tensor,
    \* the decoder layers of kirigami/layers.py
    layer, con, feat, ground_truth, training, sym_only,
    con_, memo, one_mask, num_pairs, out,
    \* the training loops of kirigami/scripts/train.py and scripts/train.py
    epochs, batches, iter_acc, eval_freq, validation,
    epoch, batch_i, grads, steps, best_val, tr_chk, vl_chk,
    \* predict of kirigami/scripts/predict.py
    best_ok, chk_ok, saved, raised

scoreVars == <<prd_pairs, grd_pairs, seq_len, scores>>
binArgs   == <<lab_, seq, thres_pairs, thres_prob, min_dist, symmetrize, canonicalize>>
binLocals == <<lab, kept, out_count, out_set, out_tensor>>
binVars   == <<binArgs, binLocals>>
layerArgs   == <<layer, con, feat, ground_truth, training, sym_only>>
layerLocals == <<con_, memo, one_mask, num_pairs, out>>
layerVars   == <<layerArgs, layerLocals>>
trainArgs   == <<epochs, batches, iter_acc, eval_freq, validation>>
trainLocals == <<epoch, batch_i, grads, steps, best_val, tr_chk, vl_chk>>
predictVars == <<best_ok, chk_ok, saved, raised>>
scriptVars  == <<trainArgs, trainLocals, predictVars>>
vars        == <<pc, scoreVars, binVars, layerVars, scriptVars>>

(***************************************************************************)
(* Bounds of the model                                                     *)
(***************************************************************************)
MaxScoreLen   == 4   \* get_scores: sequence lengths 0..MaxScoreLen
MaxScorePairs == 2   \* get_scores: arbitrary pair sets of at most this size

(***************************************************************************)
(* Generic helpers                                                         *)
(***************************************************************************)
Abs(x) == IF x < 0 THEN -x ELSE x

Min(a, b) == IF a <= b THEN a ELSE b

Max(a, b) == IF a >= b THEN a ELSE b

\* the greatest element of a non-empty set of integers
RECURSIVE MaxOf(_)
MaxOf(S) ==
    LET x == CHOOSE y \in S : TRUE
    IN  IF S = {x} THEN x ELSE Max(x, MaxOf(S \ {x}))

RECURSIVE Gcd(_, _)
Gcd(a, b) == IF b = 0 THEN a ELSE Gcd(b, a % b)

\* subsets of S with at most n elements
SubsetsUpTo(S, n) == {X \in SUBSET S : Cardinality(X) <= n}

\* "no index appears in more than one pair" (a pair <<i, i>> uses i once)
IsMatching(P) ==
    \A p \in P : \A q \in P : p # q => {p[1], p[2]} \cap {q[1], q[2]} = {}

(***************************************************************************)
(* get_scores (scripts/train.py)                                           *)
(*                                                                         *)
(* Counts are small integers promoted to float, so the arithmetic on them  *)
(* is exact.  A quotient is kept as a reduced fraction [num, den]; mcc,    *)
(* which is num / rad ** .5, is kept as [num, rad].  `error` records the   *)
(* ZeroDivisionError Python raises on a float division by zero.            *)
(***************************************************************************)
Frac(n, d) ==
    LET g == Gcd(Abs(n), Abs(d))
    IN  IF d = 0 THEN [num |-> n, den |-> 0]
        ELSE IF d < 0 THEN [num |-> (-n) \div g, den |-> (-d) \div g]
        ELSE [num |-> n \div g, den |-> d \div g]

FracMul(a, b) == Frac(a.num * b.num, a.den * b.den)
FracAdd(a, b) == Frac(a.num * b.den + b.num * a.den, a.den * b.den)
FracDiv(a, b) == Frac(a.num * b.den, a.den * b.num)
FracZero      == [num |-> 0, den |-> 1]
FracOne       == [num |-> 1, den |-> 1]

\* the guard of scripts/train.py:72 mutated to "always enter"
ScoresGuardAlways(n_prd, n_grd) == TRUE

ScoresGuard(n_prd, n_grd) == n_prd > 0 /\ n_grd > 0

\* fp of scripts/train.py:68 mutated to count against the reference
FalsePositivesOfRef(n_prd, n_grd, tp) == n_grd - tp

FalsePositives(n_prd, n_grd, tp) == n_prd - tp

\* the guard of scripts/train.py:77 mutated to drop the tn factors
MccDefinedNoTn(tp, fp, fn, tn) == (tp + fp) * (tp + fn) > 0

MccDefined(tp, fp, fn, tn) == (tp + fp) * (tp + fn) * (tn + fp) * (tn + fn) > 0

\* f1 of scripts/train.py:76 mutated to forget the factor 2
F1NoDouble(sn, pr) == FracDiv(FracMul(sn, pr), FracAdd(pr, sn))

F1Value(sn, pr) == FracDiv(FracMul(Frac(2, 1), FracMul(sn, pr)), FracAdd(pr, sn))

get_scores(prd, grd, len) ==
    LET total == (len * (len - 1)) \div 2
        n_prd == Cardinality(prd)
        n_grd == Cardinality(grd)
        tp    == Cardinality(prd \cap grd)
        fp    == FalsePositives(n_prd, n_grd, tp)
        fn    == n_grd - tp
        tn    == total - tp - fp - fn
        enter == ScoresGuard(n_prd, n_grd)
        sn    == Frac(tp, tp + fn)
        pr    == Frac(tp, tp + fp)
        prsn  == FracAdd(pr, sn)
        rad   == (tp + fp) * (tp + fn) * (tn + fp) * (tn + fn)
        doMcc == MccDefined(tp, fp, fn, tn)
        \* the divisions the call executes, by their denominators
        zeroDiv == enter /\ (  tp + fn = 0
                            \/ tp + fp = 0
                            \/ (tp > 0 /\ prsn.num = 0)
                            \/ (doMcc /\ rad <= 0) )
    IN  [ tp    |-> tp,
          tn    |-> tn,
          fp    |-> fp,
          fn    |-> fn,
          f1    |-> IF enter /\ ~zeroDiv /\ tp > 0
                    THEN F1Value(sn, pr)
                    ELSE FracZero,
          mcc   |-> IF enter /\ ~zeroDiv /\ doMcc
                    THEN [num |-> tp * tn - fp * fn, rad |-> rad]
                    ELSE [num |-> 0, rad |-> 1],
          n_grd |-> n_grd,
          n_prd |-> n_prd,
          error |-> IF zeroDiv THEN "ZeroDivisionError" ELSE "none" ]

\* num / rad ** .5 compared with a float
MccIsOne(m)  == m.num > 0 /\ m.num * m.num = m.rad
MccIsZero(m) == m.num = 0

(***************************************************************************)
(* Specification of get_scores: the inputs are drawn by Init, the call is  *)
(* one action.                                                             *)
(***************************************************************************)
\* Pair of the data model: 0 <= i < j, over the longest sequence
ScorePairs ==
    {p \in (0..(MaxScoreLen - 1)) \X (0..(MaxScoreLen - 1)) : p[1] < p[2]}

BinIdle ==
    /\ lab_ = <<>> /\ seq = <<>> /\ thres_pairs = 0 /\ thres_prob = 0
    /\ min_dist = 0 /\ symmetrize = FALSE /\ canonicalize = FALSE
    /\ kept = {} /\ out_count = 0 /\ out_set = {} /\ out_tensor = <<>>
    /\ lab = <<>>

ScoresIdle ==
    /\ prd_pairs = {} /\ grd_pairs = {} /\ seq_len = 0 /\ scores = <<>>

ScriptsIdle ==
    /\ epochs = 0 /\ batches = 0 /\ iter_acc = 0 /\ eval_freq = 0
    /\ validation = FALSE
    /\ epoch = 0 /\ batch_i = 0 /\ grads = 0 /\ steps = <<>> /\ best_val = 0
    /\ tr_chk = -1 /\ vl_chk = -1
    /\ best_ok = FALSE /\ chk_ok = FALSE /\ saved = "none" /\ raised = "none"

LayersIdle ==
    /\ layer = "none" /\ con = <<>> /\ feat = <<>> /\ ground_truth = 0
    /\ training = FALSE /\ sym_only = FALSE
    /\ con_ = <<>> /\ memo = <<>> /\ one_mask = <<>> /\ num_pairs = 0 /\ out = <<>>

InitScores ==
    /\ pc = "scores_call"
    /\ seq_len \in 0..MaxScoreLen
    /\ prd_pairs \in SubsetsUpTo(ScorePairs, MaxScorePairs)
    /\ grd_pairs \in SubsetsUpTo(ScorePairs, MaxScorePairs)
    /\ scores = <<>>
    /\ BinIdle
    /\ LayersIdle
    /\ ScriptsIdle

GetScores ==
    /\ pc = "scores_call"
    /\ scores' = get_scores(prd_pairs, grd_pairs, seq_len)
    /\ pc' = "scores_done"
    /\ UNCHANGED <<prd_pairs, grd_pairs, seq_len, binVars, layerVars, scriptVars>>

NextScores == GetScores

SpecScores == InitScores /\ [][NextScores]_vars

\* C5: get_scores returns counts with tp + fp = |predicted|, tp + fn = |reference|
\* and tn = L*(L-1)/2 - tp - fp - fn, for every predicted set, reference set and L.
ScoringConsistency ==
    pc = "scores_done" =>
        /\ scores.tp + scores.fp = Cardinality(prd_pairs)
        /\ scores.tp + scores.fn = Cardinality(grd_pairs)
        /\ scores.tn = (seq_len * (seq_len - 1)) \div 2
                         - scores.tp - scores.fp - scores.fn

ScoringConsistencyWitness ==
    /\ pc = "scores_done"
    /\ scores.tp > 0 /\ scores.fp > 0 /\ scores.fn = 0
    /\ Cardinality(prd_pairs) # Cardinality(grd_pairs)

\* a predicted set equal to a non-empty reference that is a structure of length L
PerfectMatchCase ==
    /\ pc = "scores_done"
    /\ prd_pairs = grd_pairs
    /\ prd_pairs # {}
    /\ IsMatching(prd_pairs)
    /\ \A p \in prd_pairs : 0 <= p[1] /\ p[1] < p[2] /\ p[2] < seq_len

\* C6 as stated: for every L and every non-empty structure P of length L,
\* get_scores(P, P, L) returns f1 = 1.0 and mcc = 1.0.
PerfectMatchOriginal ==
    PerfectMatchCase => scores.f1 = FracOne /\ MccIsOne(scores.mcc)

\* C6 amended: get_scores(P, P, L) returns f1 = 1.0 for every L, and mcc = 1.0
\* for every L >= 3; for L = 2 (P = {(0,1)}, where tn = 0) it returns mcc = 0.
PerfectMatchAmended ==
    PerfectMatchCase =>
        /\ scores.f1 = FracOne
        /\ seq_len >= 3 => MccIsOne(scores.mcc)
        /\ seq_len = 2 => MccIsZero(scores.mcc) /\ scores.tn = 0

PerfectMatchWitness ==
    PerfectMatchCase /\ seq_len >= 3 /\ Cardinality(prd_pairs) = 2

\* C7: get_scores never divides by zero; f1 = 0 whenever tp = 0, mcc = 0 whenever
\* (tp+fp)*(tp+fn)*(tn+fp)*(tn+fn) = 0; with no reference pair and no predicted
\* pair it returns tn = L*(L-1)/2, f1 = 0 and mcc = 0.
ZeroDenominatorPolicy ==
    pc = "scores_done" =>
        /\ scores.error = "none"
        /\ scores.tp = 0 => scores.f1 = FracZero
        /\ (scores.tp + scores.fp) * (scores.tp + scores.fn)
             * (scores.tn + scores.fp) * (scores.tn + scores.fn) = 0
           => MccIsZero(scores.mcc)
        /\ (prd_pairs = {} /\ grd_pairs = {}) =>
              /\ scores.tn = (seq_len * (seq_len - 1)) \div 2
              /\ scores.f1 = FracZero
              /\ MccIsZero(scores.mcc)

\* a call whose unguarded sensitivity would be 0/0
ZeroDenominatorWitness ==
    /\ pc = "scores_done"
    /\ grd_pairs = {} /\ prd_pairs # {}
    /\ scores.tp + scores.fn = 0
    /\ scores.error = "none"

(***************************************************************************)
(* binarize (scripts/train.py)                                             *)
(*                                                                         *)
(* lab.argsort(descending=True) is not a stable sort: cells of equal score *)
(* may come in any order.  The loop skips a visited cell when one of its   *)
(* indices is kept or its symbols are not canonical, and neither condition *)
(* is ever undone; so the cell accepted next is, among the cells that pass *)
(* the distance filter and would be accepted now, any one of highest score.*)
(* One step of the model is the run of loop iterations up to and including *)
(* the next accepting one.                                                 *)
(***************************************************************************)
Bases == {"A", "C", "G", "U"}

PAIRS == {<<"A", "U">>, <<"U", "A">>, <<"C", "G">>, <<"G", "C">>,
          <<"G", "U">>, <<"U", "G">>}

Size(s) == Cardinality(DOMAIN s)

Idx(n) == 0..(n - 1)

ZeroMatrix(n) == [r \in Idx(n) |-> [c \in Idx(n) |-> 0]]

\* beg = (full_len - seq_len) // 2
WindowBeg(full_len, len) == (full_len - len) \div 2

\* where a slice bound b falls in a dimension of size n: a negative bound
\* counts from the end, and bounds are clipped to 0..n
SliceBound(n, b) == IF b < 0 THEN Max(n + b, 0) ELSE Min(b, n)

\* lab_.squeeze()[beg:end, beg:end] with end = beg + len
Window(m, beg, len) ==
    LET start == SliceBound(Size(m), beg)
        stop  == SliceBound(Size(m), beg + len)
    IN  [r \in Idx(Max(stop - start, 0)) |-> [c \in Idx(Max(stop - start, 0)) |->
            m[start + r][start + c]]]

Transpose(m) == [r \in DOMAIN m |-> [c \in DOMAIN m |-> m[c][r]]]

MatAdd(a, b) == [r \in DOMAIN a |-> [c \in DOMAIN a |-> a[r][c] + b[r][c]]]

\* lab after windowing and, if asked, lab + lab.T
BinLab(m, s, sym) ==
    LET w == Window(m, WindowBeg(Size(m), Size(s)), Size(s))
    IN  IF sym THEN MatAdd(w, Transpose(w)) ELSE w

\* the distance filter mutated to let pairs one step closer through
DistMaskOffByOne(i, j, d) == Abs(i - j) >= d - 1

\* mask = abs(ii-jj) >= min_dist
DistMask(i, j, d) == Abs(i - j) >= d

\* the canonical test mutated to accept every pair with a U
IsCanonicalAnyU(a, b) == a = "U" \/ b = "U"

\* seq[i]+seq[j] in PAIRS
IsCanonical(a, b) == <<a, b>> \in PAIRS

\* the skip test mutated to look at one index only
BinSkipOneIndex(k, s, canon, i, j) ==
    k[i] \/ (canon /\ ~IsCanonical(s[i], s[j]))

\* kept[i] or kept[j] or (canonicalize and seq[i]+seq[j] not in PAIRS)
BinSkip(k, s, canon, i, j) ==
    k[i] \/ k[j] \/ (canon /\ ~IsCanonical(s[i], s[j]))

\* the cells <<ii, jj>> the flattened lab is read as: ii = idx // seq_len,
\* jj = idx % seq_len for every index idx of lab.ravel()
BinCells(w, s) ==
    {p \in Idx(Size(s)) \X Idx(Size(s)) :
        p[1] * Size(s) + p[2] < Size(w) * Size(w)}

\* the score the sort saw for the cell <<ii, jj>>: the entry of lab.ravel()
\* at ii * seq_len + jj
BinScore(w, s, p) ==
    LET idx == p[1] * Size(s) + p[2]
    IN  w[idx \div Size(w)][idx % Size(w)]

\* cells <<i, j>> (ii = row, jj = column of the flattened index) left by the
\* distance filter that the loop would accept if it visited them now
BinAcceptable(w, s, d, canon, k) ==
    {p \in BinCells(w, s) :
        DistMask(p[1], p[2], d) /\ ~BinSkip(k, s, canon, p[1], p[2])}

\* the cell the loop accepts next: any acceptable cell of highest score
BinNextAccepted(w, s, d, canon, k) ==
    LET acc == BinAcceptable(w, s, d, canon, k)
        top == MaxOf({BinScore(w, s, q) : q \in acc})
    IN  IF acc = {} THEN {} ELSE {p \in acc : BinScore(w, s, p) = top}

\* the position a subscript x reaches in a dimension of size n: a negative
\* subscript counts from the end
Subscript(n, x) == IF x < 0 THEN x + n ELSE x

\* the loop test mutated to run once more
BinContinueOnceMore(count, thres) == count <= thres

\* while out_count < thres_pairs (the other conjunct, pair_idx < len(ii), is
\* the non-emptiness of BinAcceptable)
BinContinue(count, thres) == count < thres

\* tuple(sorted((i, j)))
SortedPair(i, j) == IF i <= j THEN <<i, j>> ELSE <<j, i>>

\* m with m[i][j] = m[j][i] = v
SetSym(m, i, j, v) ==
    [r \in DOMAIN m |-> [c \in DOMAIN m |->
        IF (r = i /\ c = j) \/ (r = j /\ c = i) THEN v ELSE m[r][c]]]

(***************************************************************************)
(* Specification of binarize                                               *)
(***************************************************************************)
BinLen == 3   \* sequence length of the calls

\* parameter values of the calls
BinScores == 0..2   \* scores of the cells
BinPads   == 0..2   \* matrix side minus sequence length
BinThres  == 0..2   \* thres_pairs
BinDists  == 0..2   \* min_dist

\* sequences of length n over the alphabet alpha, indexed from 0
SeqsOver(alpha, n) == [Idx(n) -> alpha]

\* n x n matrices with at most k nonzero cells, each a score of vals
SparseMatrices(n, k, vals) ==
    LET cells == Idx(n) \X Idx(n)
    IN  UNION { { [r \in Idx(n) |-> [c \in Idx(n) |->
                      IF <<r, c>> \in S THEN f[<<r, c>>] ELSE 0]] :
                  f \in [S -> vals \ {0}] } :
                S \in SubsetsUpTo(cells, k) }

\* the (n+pad) x (n+pad) matrix that holds w in its centred window and the
\* score `border` in every padding cell
Padded(w, pad, border) ==
    LET n   == Size(w)
        beg == pad \div 2
    IN  [r \in Idx(n + pad) |-> [c \in Idx(n + pad) |->
            IF r - beg \in Idx(n) /\ c - beg \in Idx(n)
            THEN w[r - beg][c - beg] ELSE border]]

\* The calls.  (1) Order, ties and matching: every matrix with at most two
\* scored cells, against the sequences over {G, U} with the canonical filter on
\* and against one sequence with the filter off (the sequence is then not
\* read).  (2) Canonical filter: every sequence over the four bases against the
\* matrices with at most one scored cell.  (3) Windowing: padded matrices whose
\* padding holds zeros or the top score.
InitBinarize ==
    /\ pc = "bin_call"
    /\ \/ /\ seq \in SeqsOver({"G", "U"}, BinLen)
          /\ lab_ \in SparseMatrices(BinLen, 2, BinScores)
          /\ canonicalize = TRUE
          /\ symmetrize = TRUE
          /\ min_dist \in BinDists
       \/ /\ seq \in SeqsOver({"A"}, BinLen)
          /\ lab_ \in SparseMatrices(BinLen, 2, BinScores)
          /\ canonicalize = FALSE
          /\ symmetrize \in BOOLEAN
          /\ min_dist \in BinDists
       \/ /\ seq \in SeqsOver(Bases, BinLen)
          /\ lab_ \in SparseMatrices(BinLen, 1, BinScores)
          /\ canonicalize = TRUE
          /\ symmetrize = TRUE
          /\ min_dist = 1
       \/ /\ seq \in SeqsOver({"G", "U"}, BinLen)
          /\ \E w \in SparseMatrices(BinLen, 1, BinScores) :
             \E pad \in BinPads \ {0} :
             \E border \in {0, 2} :
                lab_ = Padded(w, pad, border)
          /\ canonicalize \in BOOLEAN
          /\ symmetrize = TRUE
          /\ min_dist = 1
    /\ thres_pairs \in BinThres
    /\ thres_prob = 0
    /\ kept = <<>> /\ out_count = 0 /\ out_set = {} /\ out_tensor = <<>>
    /\ lab = <<>>
    /\ ScoresIdle
    /\ ScriptsIdle
    /\ LayersIdle

\* lines 97-120: everything up to the loop
BinarizeEnter ==
    /\ pc = "bin_call"
    /\ lab' = BinLab(lab_, seq, symmetrize)
    /\ kept' = [i \in Idx(Size(seq)) |-> FALSE]
    /\ out_count' = 0
    /\ out_set' = {}
    /\ out_tensor' = ZeroMatrix(Size(lab_))
    /\ pc' = "bin_loop"
    /\ UNCHANGED <<binArgs, scoreVars, layerVars, scriptVars>>

\* lines 122-132: the iterations up to and including the next accepted cell
BinarizeAccept ==
    /\ pc = "bin_loop"
    /\ BinContinue(out_count, thres_pairs)
    /\ \E p \in BinNextAccepted(lab, seq, min_dist, canonicalize, kept) :
          LET i == p[1]
              j == p[2]
              beg == WindowBeg(Size(lab_), Size(seq))
              n == Size(out_tensor)
              \* FALSE: the assignment of line 131 raises IndexError
              inside == /\ Subscript(n, i + beg) \in Idx(n)
                        /\ Subscript(n, j + beg) \in Idx(n)
          IN  /\ out_set' = out_set \cup {SortedPair(i, j)}
              /\ kept' = [kept EXCEPT ![i] = TRUE, ![j] = TRUE]
              /\ out_tensor' = IF inside
                               THEN SetSym(out_tensor, Subscript(n, i + beg),
                                           Subscript(n, j + beg), 1)
                               ELSE out_tensor
              /\ out_count' = IF inside THEN out_count + 1 ELSE out_count
              /\ pc' = IF inside THEN pc ELSE "bin_error"
    /\ UNCHANGED <<lab, binArgs, scoreVars, layerVars, scriptVars>>

\* lines 122 and 134: the loop ends (count reached, or every remaining cell
\* is skipped) and the function returns out_tensor, out_set
BinarizeReturn ==
    /\ pc = "bin_loop"
    /\ \/ ~BinContinue(out_count, thres_pairs)
       \/ BinAcceptable(lab, seq, min_dist, canonicalize, kept) = {}
    /\ pc' = "bin_done"
    /\ UNCHANGED <<binArgs, binLocals, scoreVars, layerVars, scriptVars>>

NextBinarize == BinarizeEnter \/ BinarizeAccept \/ BinarizeReturn

SpecBinarize == InitBinarize /\ [][NextBinarize]_vars

\* The calls of the termination study: every matrix with at most one scored
\* cell (the cells of score 0 are candidates too), against every sequence over
\* {G, U} with the canonical filter on and one sequence with the filter off.
InitBinarizeLoop ==
    /\ pc = "bin_call"
    /\ \/ seq \in SeqsOver({"G", "U"}, BinLen) /\ canonicalize = TRUE
       \/ seq \in SeqsOver({"A"}, BinLen) /\ canonicalize = FALSE
    /\ lab_ \in SparseMatrices(BinLen, 1, BinScores)
    /\ symmetrize = TRUE
    /\ min_dist \in {0, 1}
    /\ thres_pairs \in BinThres
    /\ thres_prob = 0
    /\ kept = <<>> /\ out_count = 0 /\ out_set = {} /\ out_tensor = <<>>
    /\ lab = <<>>
    /\ ScoresIdle
    /\ ScriptsIdle
    /\ LayersIdle

\* Calls whose arguments the specification calls errors.  (1) A sequence
\* longer than the side of a 2 x 2 matrix (a 1 x 1 matrix is squeezed to a
\* scalar, which cannot be sliced, and is left out).  (2) A sequence with a
\* character outside A, C, G, U.
InitBinarizeInputs ==
    /\ pc = "bin_call"
    /\ \/ /\ \E len \in {BinLen + 2, BinLen + 4} : seq \in SeqsOver({"A"}, len)
          /\ lab_ \in [Idx(2) -> [Idx(2) -> BinScores]]
          /\ canonicalize = FALSE
          /\ symmetrize \in BOOLEAN
          /\ min_dist \in {0, 1}
       \/ /\ seq \in SeqsOver({"G", "U", "N"}, BinLen)
          /\ lab_ \in SparseMatrices(BinLen, 1, BinScores)
          /\ canonicalize \in BOOLEAN
          /\ symmetrize = TRUE
          /\ min_dist = 1
    /\ thres_pairs \in BinThres
    /\ thres_prob = 0
    /\ kept = <<>> /\ out_count = 0 /\ out_set = {} /\ out_tensor = <<>>
    /\ lab = <<>>
    /\ ScoresIdle
    /\ ScriptsIdle
    /\ LayersIdle

SpecBinarizeInputs == InitBinarizeInputs /\ [][NextBinarize]_vars

\* binarize is a sequential function: a call that can take a step takes it
FairBinarize == InitBinarizeLoop /\ [][NextBinarize]_vars /\ WF_vars(NextBinarize)

(***************************************************************************)
(* The layers of kirigami/layers.py                                        *)
(*                                                                         *)
(* feat is the one-hot encoding of the sequence: feat[i] is the column of  *)
(* the four base channels at position i, a function 0..3 -> {0, 1}.        *)
(***************************************************************************)
MinDist == 4   \* self._min_dist of RemoveSharp

\* self._bases = torch.Tensor([2, 3, 5, 7])
BaseCodes == [k \in 0..3 |-> CASE k = 0 -> 2 [] k = 1 -> 3 [] k = 2 -> 5 [] k = 3 -> 7]

\* self._pairs = {14, 15, 35}
PairCodes == {14, 15, 35}

\* the channel of a base in the encoding, "ACGU"
BaseIndex(b) == CASE b = "A" -> 0 [] b = "C" -> 1 [] b = "G" -> 2 [] b = "U" -> 3

OneHot(b) == [k \in 0..3 |-> IF k = BaseIndex(b) THEN 1 ELSE 0]

\* seq.argmax(0) at one position: the first channel holding the maximum
ArgMax(col) ==
    CHOOSE k \in 0..3 :
        /\ \A h \in 0..3 : col[h] <= col[k]
        /\ \A h \in 0..3 : h < k => col[h] < col[k]

\* Symmetrize mutated to add the transpose without halving
SymmetrizeNoHalf(m) == [r \in DOMAIN m |-> [c \in DOMAIN m |-> m[r][c] + m[c][r]]]

\* Symmetrize.forward: (ipt + ipt.transpose(-1, -2)) / 2
Symmetrize(m) ==
    [r \in DOMAIN m |-> [c \in DOMAIN m |-> (m[r][c] + m[c][r]) \div 2]]

\* RemoveSharp mutated to keep the diagonals at distance MinDist - 1
RemoveSharpOffByOne(m) ==
    [r \in DOMAIN m |-> [c \in DOMAIN m |->
        (IF c - r <= -(MinDist - 1) THEN m[r][c] ELSE 0)
      + (IF c - r >= MinDist - 1 THEN m[r][c] ELSE 0)]]

\* RemoveSharp.forward: ipt.tril(-self._min_dist) + ipt.triu(self._min_dist)
RemoveSharp(m) ==
    [r \in DOMAIN m |-> [c \in DOMAIN m |->
        (IF c - r <= -MinDist THEN m[r][c] ELSE 0)
      + (IF c - r >= MinDist THEN m[r][c] ELSE 0)]]

\* Canonicalize mutated to a pair table that also holds A-G (2 * 5)
CanonicalizeWithAG(m, f) ==
    LET pairs == [i \in DOMAIN m |-> BaseCodes[ArgMax(f[i])]]
    IN  [r \in DOMAIN m |-> [c \in DOMAIN m |->
            IF pairs[r] * pairs[c] \in PairCodes \cup {10} THEN m[r][c] ELSE 0]]

\* Canonicalize.forward: con_[~pair_mask] = 0 with pair_mask the cells whose
\* product of base codes is in self._pairs
Canonicalize(m, f) ==
    LET pairs == [i \in DOMAIN m |-> BaseCodes[ArgMax(f[i])]]
    IN  [r \in DOMAIN m |-> [c \in DOMAIN m |->
            IF pairs[r] * pairs[c] \in PairCodes THEN m[r][c] ELSE 0]]

\* the cells of a square matrix
Cells(m) == (DOMAIN m) \X (DOMAIN m)

\* the unordered pairs with a nonzero entry in a matrix
PairsOf(m) ==
    {p \in Cells(m) :
        p[1] < p[2] /\ (m[p[1]][p[2]] # 0 \/ m[p[2]][p[1]] # 0)}

\* torch.inf, the default of ground_truth: larger than every length
Infinity == 1000000

\* ground_truth = min(ground_truth, L // 2) mutated to forget the caller's count
GreedyCapIgnoresCount(gt, L) == L \div 2

\* ground_truth = min(ground_truth, L // 2)
GreedyCap(gt, L) == Min(gt, L \div 2)

\* the Greedy skip test mutated to look at one index only
GreedySkipOneIndex(mm, i, j) == mm[i]

\* if memo[i] or memo[j]: continue
GreedySkip(mm, i, j) == mm[i] \/ mm[j]

\* Greedy: idxs = con_flat.argsort(descending=True) is not a stable sort, and
\* a visited cell is skipped only when one of its indices is in memo, which is
\* never undone; so the cell accepted next is any cell of highest score among
\* those with both indices free.  The cell <<i, j>> has ii = idx % L (column)
\* and jj = idx // L (row): its score is m[j][i].
GreedyAcceptable(m, mm) ==
    {p \in Cells(m) : ~GreedySkip(mm, p[1], p[2])}

\* the Greedy walk mutated to visit the cells in no order at all
GreedyNextAcceptedUnsorted(m, mm) == GreedyAcceptable(m, mm)

GreedyNextAccepted(m, mm) ==
    LET acc == GreedyAcceptable(m, mm)
        top == MaxOf({m[q[2]][q[1]] : q \in acc})
    IN  IF acc = {} THEN {} ELSE {p \in acc : m[p[2]][p[1]] = top}

\* con_[~one_mask] = 0.
MaskedFill(m, mask) ==
    [r \in DOMAIN m |-> [c \in DOMAIN m |-> IF mask[r][c] THEN m[r][c] ELSE 0]]

\* Blossom: the edges of G, the unordered pairs with a positive entry
BlossomEdges(m) ==
    {p \in Cells(m) :
        p[1] < p[2] /\ (m[p[1]][p[2]] > 0 \/ m[p[2]][p[1]] > 0)}

\* the weight of an edge of G: add_weighted_edges_from keeps the weight of the
\* last triple given for the edge, the one of the row-major later cell
BlossomWeight(m, p) ==
    IF m[p[2]][p[1]] > 0 THEN m[p[2]][p[1]] ELSE m[p[1]][p[2]]

\* the total weight of a set of edges
RECURSIVE TotalWeight(_, _)
TotalWeight(M, m) ==
    IF M = {} THEN 0
    ELSE LET p == CHOOSE x \in M : TRUE
         IN  BlossomWeight(m, p) + TotalWeight(M \ {p}, m)

\* nx.max_weight_matching(G): some matching of G of maximum total weight
MaxWeightMatchings(m) ==
    LET ms == {M \in SUBSET BlossomEdges(m) : IsMatching(M)}
    IN  {M \in ms : \A N \in ms : TotalWeight(N, m) <= TotalWeight(M, m)}

\* the early return of Blossom mutated to return zeros
BlossomNoEdgesZero(m) == [r \in DOMAIN m |-> [c \in DOMAIN m |-> 0]]

\* if torch.sum(con > 0) == 0: return con
BlossomNoEdges(m) == m

HasPositive(m) == \E r \in DOMAIN m : \E c \in DOMAIN m : m[r][c] > 0

\* Blossom masking mutated to mark one orientation of each matched edge
BlossomMaskedUpper(m, M) ==
    [r \in DOMAIN m |-> [c \in DOMAIN m |->
        IF <<r, c>> \in M THEN m[r][c] ELSE 0]]

\* mask[edges_match[:, 0], edges_match[:, 1]] = 1 and its transpose;
\* con = con * mask
BlossomMasked(m, M) ==
    [r \in DOMAIN m |-> [c \in DOMAIN m |->
        IF <<r, c>> \in M \/ <<c, r>> \in M THEN m[r][c] ELSE 0]]

(***************************************************************************)
(* kirigami.nussinov.nussinov, the non-crossing interval dynamic program   *)
(* called by Dynamic.forward.                                              *)
(***************************************************************************)
\* best[i][j]: intervals shorter than min_pair_distance + 1 score 0
RECURSIVE NussinovBest(_, _, _)
\* the value of closing the pair (k, j) inside [i, j]
NussinovPaired(m, i, j, k) ==
    NussinovBest(m, i, k - 1) + m[k][j] + NussinovBest(m, k + 1, j - 1)

\* the candidates k of the recurrence: weight(k, j) > 0
NussinovCandidates(m, i, j) == {k \in i..(j - 1) : m[k][j] > 0}

NussinovBest(m, i, j) ==
    IF j - i < MinDist THEN 0
    ELSE MaxOf({NussinovBest(m, i, j - 1)}
               \cup {NussinovPaired(m, i, j, k) : k \in NussinovCandidates(m, i, j)})

\* the pair sets the traceback can return: at equal weight leaving j unpaired
\* is preferred; which k is taken among equal ones is not fixed
RECURSIVE NussinovTraces(_, _, _)
NussinovTraces(m, i, j) ==
    IF j - i < MinDist THEN {{}}
    ELSE IF NussinovBest(m, i, j) = NussinovBest(m, i, j - 1)
    THEN NussinovTraces(m, i, j - 1)
    ELSE UNION { { {<<k, j>>} \cup a \cup b :
                     a \in NussinovTraces(m, i, k - 1),
                     b \in NussinovTraces(m, k + 1, j - 1) } :
                 k \in {h \in NussinovCandidates(m, i, j) :
                          NussinovPaired(m, i, j, h) = NussinovBest(m, i, j)} }

\* the pair masks nussinov can return for the matrix m
nussinov(m) == NussinovTraces(m, 0, Size(m) - 1)

\* Dynamic masking mutated to leave the matrix as it is
DynamicMaskedNone(m, M) == m

\* con_ *= pair_mask
DynamicMasked(m, M) ==
    [r \in DOMAIN m |-> [c \in DOMAIN m |->
        IF <<r, c>> \in M \/ <<c, r>> \in M THEN m[r][c] ELSE 0]]

(***************************************************************************)
(* Specification of the three filters called on their own: each action is  *)
(* one forward call on the tensor the previous call returned.  con is the  *)
(* tensor passed to the call as the call leaves it, con_ the tensor        *)
(* returned.  Canonicalize writes through con.squeeze(), a view of its     *)
(* argument.                                                               *)
(***************************************************************************)
PreLen == 5   \* side of the matrices given to the filters

\* raw scores: even, so that Symmetrize halves them exactly
LayerScores == {-2, 0, 2, 4}

\* raw n x n matrices with one scored cell and any score in its mirror cell
ProbeMatrices(n) ==
    { [r \in Idx(n) |-> [c \in Idx(n) |->
          IF <<r, c>> = p THEN v ELSE IF <<c, r>> = p THEN w ELSE 0]] :
        p \in Idx(n) \X Idx(n), v \in LayerScores \ {0}, w \in LayerScores }

\* one-hot features of the sequences  a b c c ... c
HeadFeats(alpha, tail, n) ==
    { [i \in Idx(n) |-> OneHot(IF i = 0 THEN a ELSE IF i = 1 THEN b ELSE c)] :
        a \in alpha, b \in alpha, c \in tail }

\* one-hot features of the sequences  a ... a b ... b
BlockFeats(alpha, n) ==
    { [i \in Idx(n) |-> OneHot(IF i < n \div 2 THEN a ELSE b)] :
        a \in alpha, b \in alpha }

LayerLocalsInit ==
    /\ memo = <<>> /\ one_mask = <<>> /\ num_pairs = 0 /\ out = <<>>

InitPre ==
    /\ pc = "pre_call"
    /\ layer = "none"
    /\ con \in ProbeMatrices(PreLen)
    /\ con_ = con
    /\ feat \in BlockFeats(Bases, PreLen)
    /\ ground_truth = 0 /\ training = FALSE /\ sym_only = FALSE
    /\ LayerLocalsInit
    /\ ScoresIdle
    /\ ScriptsIdle
    /\ BinIdle

PreFrame ==
    UNCHANGED <<layer, feat, ground_truth, training, sym_only,
                memo, one_mask, num_pairs, out, scoreVars, binVars, scriptVars>>

\* Symmetrize.forward(con_)
PreSymmetrize ==
    /\ pc \in {"pre_call", "pre_sym", "pre_sharp", "pre_canon"}
    /\ con' = con_
    /\ con_' = Symmetrize(con_)
    /\ pc' = "pre_sym"
    /\ PreFrame

\* RemoveSharp.forward(con_)
PreRemoveSharp ==
    /\ pc \in {"pre_call", "pre_sym", "pre_sharp", "pre_canon"}
    /\ con' = con_
    /\ con_' = RemoveSharp(con_)
    /\ pc' = "pre_sharp"
    /\ PreFrame

\* Canonicalize.forward(con_, feat): con_[~pair_mask] = 0. writes into the
\* argument, and the argument reshaped is returned
PreCanonicalize ==
    /\ pc \in {"pre_call", "pre_sym", "pre_sharp", "pre_canon"}
    /\ con' = Canonicalize(con_, feat)
    /\ con_' = Canonicalize(con_, feat)
    /\ pc' = "pre_canon"
    /\ PreFrame

NextPre == PreSymmetrize \/ PreRemoveSharp \/ PreCanonicalize

SpecPre == InitPre /\ [][NextPre]_vars

(***************************************************************************)
(* Specification of the decoder layers in eval mode                        *)
(***************************************************************************)
GreedyLen  == 6   \* side of the matrices given to Greedy
BlossomLen == 6   \* side of the matrices given to Blossom
DynamicLen == 7   \* side of the matrices given to Dynamic

\* the cells above the diagonal at distance >= MinDist
FarUpper(n) == {p \in Idx(n) \X Idx(n) : p[2] - p[1] >= MinDist}

\* raw n x n matrices: at most k nonzero scores in the far upper cells, zeros
\* in the far lower cells, and the score `near` in every cell closer than
\* MinDist to the diagonal
LayerMatrices(n, k, near) ==
    UNION { { [r \in Idx(n) |-> [c \in Idx(n) |->
                  IF <<r, c>> \in S THEN f[<<r, c>>]
                  ELSE IF Abs(r - c) < MinDist THEN near ELSE 0]] :
              f \in [S -> LayerScores \ {0}] } :
            S \in SubsetsUpTo(FarUpper(n), k) }

LayerInit(name) ==
    /\ pc = "layer_call"
    /\ layer = name
    /\ training = FALSE
    /\ sym_only = FALSE
    /\ con_ = <<>>
    /\ LayerLocalsInit
    /\ ScoresIdle
    /\ ScriptsIdle
    /\ BinIdle

InitGreedy ==
    /\ LayerInit("Greedy")
    /\ con \in LayerMatrices(GreedyLen, 2, 0)
    /\ feat \in HeadFeats({"G", "U"}, {"U"}, GreedyLen)
    /\ ground_truth \in {0, 1, 2, Infinity}

InitBlossom ==
    /\ LayerInit("Blossom")
    /\ \E near \in {0, 4} : con \in LayerMatrices(BlossomLen, 3, near)
    /\ feat \in HeadFeats({"G", "U"}, {"G", "U"}, BlossomLen)
                  \cup BlockFeats(Bases, BlossomLen)
    /\ ground_truth = Infinity

InitDynamic ==
    /\ LayerInit("Dynamic")
    /\ \E near \in {0, 4} : con \in LayerMatrices(DynamicLen, 3, near)
    /\ feat \in HeadFeats({"G", "U"}, {"G", "U"}, DynamicLen)
    /\ ground_truth = Infinity

\* the early return: Greedy and Blossom test self.training or sym_only,
\* Dynamic tests self.training only (sym_only falls into **kwargs)
BypassTaken(name, tr, so) == IF name = "Dynamic" THEN tr ELSE tr \/ so

\* the three filters at the head of forward, in eval mode:
\* self.symmetrize, self.remove_sharp, self.canonicalize
Preprocess(m, f) == Canonicalize(RemoveSharp(Symmetrize(m)), f)

\* Greedy.forward, lines 60-78; Blossom.forward, lines 127-132;
\* Dynamic.forward, lines 103-106
LayerPreprocess ==
    /\ pc = "layer_call"
    /\ ~BypassTaken(layer, training, sym_only)
    /\ con_' = Preprocess(con, feat)
    /\ IF layer = "Greedy"
       THEN /\ memo' = [i \in DOMAIN con |-> FALSE]
            /\ one_mask' = [r \in DOMAIN con |-> [c \in DOMAIN con |-> FALSE]]
            /\ num_pairs' = 0
       ELSE UNCHANGED <<memo, one_mask, num_pairs>>
    /\ pc' = "layer_decode"
    /\ UNCHANGED <<layerArgs, out, scoreVars, binVars, scriptVars>>

\* Greedy.forward, lines 79-86: the iterations up to and including the next
\* accepted cell
GreedyAccept ==
    /\ pc = "layer_decode"
    /\ layer = "Greedy"
    /\ num_pairs # GreedyCap(ground_truth, Size(con_))
    /\ \E p \in GreedyNextAccepted(con_, memo) :
          LET i == p[1]
              j == p[2]
          IN  /\ one_mask' = [r \in DOMAIN one_mask |-> [c \in DOMAIN one_mask |->
                     IF (r = i /\ c = j) \/ (r = j /\ c = i) THEN TRUE
                     ELSE one_mask[r][c]]]
              /\ memo' = [memo EXCEPT ![i] = TRUE, ![j] = TRUE]
              /\ num_pairs' = num_pairs + 1
    /\ UNCHANGED <<pc, layerArgs, con_, out, scoreVars, binVars, scriptVars>>

\* Greedy.forward, lines 80-81 and 87-89: the loop ends (cap reached, or every
\* remaining cell is skipped) and the masked matrix is returned
GreedyReturn ==
    /\ pc = "layer_decode"
    /\ layer = "Greedy"
    /\ \/ num_pairs = GreedyCap(ground_truth, Size(con_))
       \/ GreedyAcceptable(con_, memo) = {}
    /\ out' = MaskedFill(con_, one_mask)
    /\ pc' = "layer_done"
    /\ UNCHANGED <<layerArgs, con_, memo, one_mask, num_pairs, scoreVars, binVars, scriptVars>>

\* Blossom.forward, lines 134-135
BlossomEarlyReturn ==
    /\ pc = "layer_decode"
    /\ layer = "Blossom"
    /\ ~HasPositive(con_)
    /\ out' = BlossomNoEdges(con_)
    /\ pc' = "layer_done"
    /\ UNCHANGED <<layerArgs, con_, memo, one_mask, num_pairs, scoreVars, binVars, scriptVars>>

\* Blossom.forward, lines 137-157
BlossomMatch ==
    /\ pc = "layer_decode"
    /\ layer = "Blossom"
    /\ HasPositive(con_)
    /\ \E M \in MaxWeightMatchings(con_) : out' = BlossomMasked(con_, M)
    /\ pc' = "layer_done"
    /\ UNCHANGED <<layerArgs, con_, memo, one_mask, num_pairs, scoreVars, binVars, scriptVars>>

\* Dynamic.forward, lines 108-113
DynamicDecode ==
    /\ pc = "layer_decode"
    /\ layer = "Dynamic"
    /\ \E M \in nussinov(con_) : out' = DynamicMasked(con_, M)
    /\ pc' = "layer_done"
    /\ UNCHANGED <<layerArgs, con_, memo, one_mask, num_pairs, scoreVars, binVars, scriptVars>>

NextGreedy == LayerPreprocess \/ GreedyAccept \/ GreedyReturn

SpecGreedy == InitGreedy /\ [][NextGreedy]_vars

NextBlossom == LayerPreprocess \/ BlossomEarlyReturn \/ BlossomMatch

SpecBlossom == InitBlossom /\ [][NextBlossom]_vars

NextDynamic == LayerPreprocess \/ DynamicDecode

SpecDynamic == InitDynamic /\ [][NextDynamic]_vars

(***************************************************************************)
(* Specification of Greedy and Blossom on features with padded positions:  *)
(* a padded position is a column of feat whose four base channels are 0.   *)
(***************************************************************************)
PadLen == 6   \* side of the matrices given with padded features

\* the column of feat at a padded position
ZeroColumn == [k \in 0..3 |-> 0]

\* features of the sequences  a ... a b ... b  with the first position, the
\* last position, or both, padded
PaddedFeats(alpha, n) ==
    { [i \in Idx(n) |->
          IF i \in P THEN ZeroColumn
          ELSE OneHot(IF i < n \div 2 THEN a ELSE b)] :
        P \in {{0}, {n - 1}, {0, n - 1}}, a \in alpha, b \in alpha }

InitPadding ==
    /\ \E name \in {"Greedy", "Blossom"} : LayerInit(name)
    /\ con \in LayerMatrices(PadLen, 1, 0)
    /\ feat \in PaddedFeats({"A", "G", "U"}, PadLen)
    /\ ground_truth = Infinity

NextPadding == NextGreedy \/ NextBlossom

SpecPadding == InitPadding /\ [][NextPadding]_vars

(***************************************************************************)
(* Specification of the three decoder layers in both modes: the module in  *)
(* training or in eval mode, with and without sym_only.                    *)
(***************************************************************************)
BypassLen == 5   \* side of the matrices given in both modes

\* the early return mutated to apply the distance filter first
BypassFiltered(name, m) ==
    IF name = "Dynamic" THEN m ELSE RemoveSharp(Symmetrize(m))

\* what the early return hands back: Greedy and Blossom have symmetrized con
\* before the test, Dynamic returns its argument
Bypass(name, m) == IF name = "Dynamic" THEN m ELSE Symmetrize(m)

\* Greedy.forward, lines 60-63; Blossom.forward, lines 127-130;
\* Dynamic.forward, lines 100-101
LayerBypass ==
    /\ pc = "layer_call"
    /\ BypassTaken(layer, training, sym_only)
    /\ out' = Bypass(layer, con)
    /\ pc' = "layer_done"
    /\ UNCHANGED <<layerArgs, con_, memo, one_mask, num_pairs, scoreVars, binVars, scriptVars>>

InitBypass ==
    /\ pc = "layer_call"
    /\ layer \in {"Greedy", "Blossom", "Dynamic"}
    /\ training \in BOOLEAN
    /\ sym_only \in BOOLEAN
    /\ con \in ProbeMatrices(BypassLen)
    /\ feat \in HeadFeats({"G"}, {"U"}, BypassLen)
    /\ ground_truth = Infinity
    /\ con_ = <<>>
    /\ LayerLocalsInit
    /\ ScoresIdle
    /\ ScriptsIdle
    /\ BinIdle

NextBypass == LayerBypass \/ NextGreedy \/ NextBlossom \/ NextDynamic

SpecBypass == InitBypass /\ [][NextBypass]_vars

(***************************************************************************)
(* Specification of the round trip of the validation loop: binarize on a   *)
(* matrix of side MAX_SIZE, then to_pairs on the dense matrix it returned. *)
(***************************************************************************)
MAX_SIZE == 4   \* MAX_SIZE of train.py, at the scale of the model

\* to_pairs: the window of the sequence, torch.max over the rows of each
\* column (the first row holding the maximum), and the pairs (i, idx) of the
\* columns whose maximum is 1 and lies below the diagonal
to_pairs(ipt, len) ==
    LET w == Window(ipt, WindowBeg(MAX_SIZE, len), len)
        val(i) == MaxOf({w[r][i] : r \in DOMAIN w})
        idx(i) == CHOOSE r \in DOMAIN w :
                      /\ w[r][i] = val(i)
                      /\ \A q \in DOMAIN w : q < r => w[q][i] < val(i)
    IN  {<<i, idx(i)>> : i \in {c \in DOMAIN w : val(c) = 1 /\ c < idx(c)}}

InitRoundTrip ==
    /\ pc = "bin_call"
    /\ \E pad \in BinPads : seq \in SeqsOver({"A"}, MAX_SIZE - pad)
    /\ lab_ \in SparseMatrices(MAX_SIZE, 1, BinScores)
    /\ canonicalize = FALSE
    /\ symmetrize = TRUE
    /\ min_dist \in {0, 1}
    /\ thres_pairs \in BinThres
    /\ thres_prob = 0
    /\ kept = <<>> /\ out_count = 0 /\ out_set = {} /\ out_tensor = <<>>
    /\ lab = <<>>
    /\ ScoresIdle
    /\ ScriptsIdle
    /\ LayersIdle

\* grd_set = to_pairs(con, len(seq)), applied to the matrix binarize returned
RoundTripToPairs ==
    /\ pc = "bin_done"
    /\ grd_pairs' = to_pairs(out_tensor, Size(seq))
    /\ pc' = "pairs_done"
    /\ UNCHANGED <<prd_pairs, seq_len, scores, binVars, layerVars, scriptVars>>

NextRoundTrip == NextBinarize \/ RoundTripToPairs

SpecRoundTrip == InitRoundTrip /\ [][NextRoundTrip]_vars

(***************************************************************************)
(* The training loop of train, kirigami/scripts/train.py, called with      *)
(* resume = False.  grads is the number of batches whose gradients are     *)
(* held in the parameters' .grad, steps the value of grads at each call of *)
(* optimizer.step(); tr_chk and vl_chk are the epochs last written to the  *)
(* training and to the best checkpoint file, -1 before the first write.    *)
(***************************************************************************)
MaxEpochs  == 2   \* largest number of epochs
MaxBatches == 3   \* largest number of batches of the training loader

\* mean validation losses, and mean validation MCCs
ValMetrics == {1, 2}

TrainIdle ==
    /\ epoch = 0 /\ batch_i = 0 /\ grads = 0 /\ steps = <<>>
    /\ tr_chk = -1 /\ vl_chk = -1

PredictIdle ==
    /\ best_ok = FALSE /\ chk_ok = FALSE /\ saved = "none" /\ raised = "none"

\* lines 32-58: best_val_loss = float('inf'), start_epoch = 0
InitTrain ==
    /\ pc = "train_batch"
    /\ epochs \in 1..MaxEpochs
    /\ batches \in 1..MaxBatches
    /\ validation \in BOOLEAN
    /\ iter_acc = 0 /\ eval_freq = 0
    /\ best_val = Infinity
    /\ TrainIdle
    /\ PredictIdle
    /\ ScoresIdle
    /\ BinIdle
    /\ LayersIdle

\* lines 63-67: pred, loss, and loss.backward() adds the gradients of the batch
TrainBackward ==
    /\ pc = "train_batch"
    /\ batch_i < batches
    /\ grads' = grads + 1
    /\ pc' = "train_backward"
    /\ UNCHANGED <<trainArgs, epoch, batch_i, steps, best_val, tr_chk, vl_chk,
                   predictVars, scoreVars, binVars, layerVars>>

\* line 68: optimizer.zero_grad()
TrainZeroGrad ==
    /\ pc = "train_backward"
    /\ grads' = 0
    /\ pc' = "train_zero_grad"
    /\ UNCHANGED <<trainArgs, epoch, batch_i, steps, best_val, tr_chk, vl_chk,
                   predictVars, scoreVars, binVars, layerVars>>

\* line 69: optimizer.step(), and the loop takes the next batch
TrainStep ==
    /\ pc = "train_zero_grad"
    /\ steps' = Append(steps, grads)
    /\ batch_i' = batch_i + 1
    /\ pc' = "train_batch"
    /\ UNCHANGED <<trainArgs, epoch, grads, best_val, tr_chk, vl_chk,
                   predictVars, scoreVars, binVars, layerVars>>

\* lines 70-97: the checkpoint is written, the validation loss is computed
\* and a smaller one than best_val_loss is written as the best checkpoint
TrainEpochEnd ==
    /\ pc = "train_batch"
    /\ batch_i = batches
    /\ tr_chk' = epoch
    /\ \E val_loss_mean \in ValMetrics :
          IF validation /\ val_loss_mean < best_val
          THEN best_val' = val_loss_mean /\ vl_chk' = epoch
          ELSE UNCHANGED <<best_val, vl_chk>>
    /\ epoch' = epoch + 1
    /\ batch_i' = 0
    /\ pc' = IF epoch + 1 < epochs THEN "train_batch" ELSE "train_done"
    /\ UNCHANGED <<trainArgs, grads, steps,
                   predictVars, scoreVars, binVars, layerVars>>

NextTrain == TrainBackward \/ TrainZeroGrad \/ TrainStep \/ TrainEpochEnd

(***************************************************************************)
(* predict, kirigami/scripts/predict.py, lines 19-24.  best_ok and chk_ok  *)
(* say whether torch.load of the best and of the training checkpoint       *)
(* succeeds.  The statement is  try / except <expression> / else :  the    *)
(* else clause runs when the try body raised nothing, and the expression   *)
(* of the except clause, os.path.exists(...), is a bool, which Python      *)
(* refuses to match an exception against (TypeError).  Line 22 and the     *)
(* lines after the statement are never reached.                            *)
(***************************************************************************)
InitPredict ==
    /\ pc = "predict_call"
    /\ best_ok \in BOOLEAN
    /\ chk_ok \in BOOLEAN
    /\ saved = "none"
    /\ raised = "none"
    /\ epochs = 0 /\ batches = 0 /\ iter_acc = 0 /\ eval_freq = 0
    /\ validation = FALSE /\ best_val = 0
    /\ TrainIdle
    /\ ScoresIdle
    /\ BinIdle
    /\ LayersIdle

\* line 20: saved = torch.load(config.training.best)
PredictLoadBest ==
    /\ pc = "predict_call"
    /\ saved' = IF best_ok THEN "best" ELSE saved
    /\ pc' = IF best_ok THEN "predict_else" ELSE "predict_except"
    /\ UNCHANGED <<best_ok, chk_ok, raised, trainArgs, trainLocals,
                   scoreVars, binVars, layerVars>>

\* line 21: the exception of torch.load is matched against a bool
PredictExcept ==
    /\ pc = "predict_except"
    /\ raised' = "TypeError"
    /\ pc' = "predict_error"
    /\ UNCHANGED <<best_ok, chk_ok, saved, trainArgs, trainLocals,
                   scoreVars, binVars, layerVars>>

\* lines 23-24: raise FileNotFoundError
PredictElse ==
    /\ pc = "predict_else"
    /\ raised' = "FileNotFoundError"
    /\ pc' = "predict_error"
    /\ UNCHANGED <<best_ok, chk_ok, saved, trainArgs, trainLocals,
                   scoreVars, binVars, layerVars>>

NextPredict == PredictLoadBest \/ PredictExcept \/ PredictElse

\* the two commands of the package
SpecKirigami == (InitTrain \/ InitPredict) /\ [][NextTrain \/ NextPredict]_vars

(***************************************************************************)
(* The training loop of main, scripts/train.py, lines 184-309.  grads is   *)
(* the number of batches whose gradients are held in the parameters'       *)
(* .grad since the last zero_grad, steps the value of grads at each        *)
(* optimizer step.  g.SCALER.step(g.OPT) leaves the optimizer step out     *)
(* when the gradients hold an inf or a nan.                                *)
(***************************************************************************)
MaxIterAcc == 3   \* largest p.iter_acc

\* lines 172-173: g.BEST_MCC = -float("inf")
InitMain ==
    /\ pc = "main_batch"
    /\ epochs \in 1..MaxEpochs
    /\ batches \in 1..MaxBatches
    /\ iter_acc \in 1..MaxIterAcc
    /\ eval_freq \in 1..2
    /\ validation = TRUE
    /\ best_val = -Infinity
    /\ TrainIdle
    /\ PredictIdle
    /\ ScoresIdle
    /\ BinIdle
    /\ LayersIdle

\* lines 189-208: g.SCALER.scale(loss).backward() adds the gradients of the
\* batch
MainBackward ==
    /\ pc = "main_batch"
    /\ batch_i < batches
    /\ grads' = grads + 1
    /\ pc' = "main_backward"
    /\ UNCHANGED <<trainArgs, epoch, batch_i, steps, best_val, tr_chk, vl_chk,
                   predictVars, scoreVars, binVars, layerVars>>

\* lines 210-214, i % p.iter_acc == 0: the step, the update of the scaler and
\* g.OPT.zero_grad(set_to_none=True)
MainStep ==
    /\ pc = "main_backward"
    /\ batch_i % iter_acc = 0
    /\ \E found_inf \in BOOLEAN :
          steps' = IF found_inf THEN steps ELSE Append(steps, grads)
    /\ grads' = 0
    /\ batch_i' = batch_i + 1
    /\ pc' = "main_batch"
    /\ UNCHANGED <<trainArgs, epoch, best_val, tr_chk, vl_chk,
                   predictVars, scoreVars, binVars, layerVars>>

\* lines 210 and 214, i % p.iter_acc # 0: the gradients stay
MainAccumulate ==
    /\ pc = "main_backward"
    /\ batch_i % iter_acc # 0
    /\ batch_i' = batch_i + 1
    /\ pc' = "main_batch"
    /\ UNCHANGED <<trainArgs, epoch, grads, steps, best_val, tr_chk, vl_chk,
                   predictVars, scoreVars, binVars, layerVars>>

\* lines 216-309: the training checkpoint is written; every eval_freq epochs
\* the validation runs under torch.no_grad() and a larger mean MCC than
\* g.BEST_MCC is written as the validation checkpoint
MainEpochEnd ==
    /\ pc = "main_batch"
    /\ batch_i = batches
    /\ tr_chk' = epoch
    /\ \E mcc_mean \in ValMetrics :
          IF epoch % eval_freq = 0 /\ mcc_mean > best_val
          THEN best_val' = mcc_mean /\ vl_chk' = epoch
          ELSE UNCHANGED <<best_val, vl_chk>>
    /\ epoch' = epoch + 1
    /\ batch_i' = 0
    /\ pc' = IF epoch + 1 < epochs THEN "main_batch" ELSE "main_done"
    /\ UNCHANGED <<trainArgs, grads, steps,
                   predictVars, scoreVars, binVars, layerVars>>

NextMain == MainBackward \/ MainStep \/ MainAccumulate \/ MainEpochEnd

SpecMain == InitMain /\ [][NextMain]_vars

(***************************************************************************)
(* Scenario A of the specification: a sequence of length 4 whose only      *)
(* scored pair is (0, 3), decoded by Greedy or Dynamic and scored against  *)
(* the reference {(0, 3)}.  Scores are in units of 0.05: 18 stands for 0.9.*)
(***************************************************************************)
\* the 4 x 4 matrices with M[0][3] = M[3][0] = v and 0 elsewhere
ScenarioMatrices ==
    { [r \in Idx(4) |-> [c \in Idx(4) |->
          IF <<r, c>> \in {<<0, 3>>, <<3, 0>>} THEN v ELSE 0]] : v \in {2, 18} }

\* one-hot features of the sequences  a C G d
ScenarioFeats ==
    { [i \in Idx(4) |-> OneHot(IF i = 0 THEN a ELSE IF i = 1 THEN "C"
                                ELSE IF i = 2 THEN "G" ELSE d)] :
        a \in Bases, d \in Bases }

InitScenario ==
    /\ \E name \in {"Greedy", "Dynamic"} : LayerInit(name)
    /\ con \in ScenarioMatrices
    /\ feat \in ScenarioFeats
    /\ ground_truth \in {1, Infinity}

\* get_scores on the pairs with a nonzero entry in the decoder's output,
\* against the reference {(0, 3)}
ScenarioScore ==
    /\ pc = "layer_done"
    /\ prd_pairs' = PairsOf(out)
    /\ grd_pairs' = {<<0, 3>>}
    /\ seq_len' = Size(out)
    /\ scores' = get_scores(PairsOf(out), {<<0, 3>>}, Size(out))
    /\ pc' = "scenario_scored"
    /\ UNCHANGED <<binVars, layerVars, scriptVars>>

NextScenario ==
    \/ LayerPreprocess \/ GreedyAccept \/ GreedyReturn \/ DynamicDecode
    \/ ScenarioScore

SpecScenario == InitScenario /\ [][NextScenario]_vars

(***************************************************************************)
(* binarize and Greedy on the same call: the same unpadded matrix, the     *)
(* same sequence, minimum distance 4, symmetrize and canonicalize on, the  *)
(* same pair count.  binarize runs first, Greedy after it.                 *)
(***************************************************************************)
CompareLen == 6   \* length of the sequences given to both

\* sequences  a b U ... U
HeadSeqs(alpha, n) ==
    { [i \in Idx(n) |-> IF i = 0 THEN a ELSE IF i = 1 THEN b ELSE "U"] :
        a \in alpha, b \in alpha }

InitCompare ==
    /\ pc = "bin_call"
    /\ lab_ \in LayerMatrices(CompareLen, 2, 0)
    /\ seq \in HeadSeqs({"G", "U"}, CompareLen)
    /\ thres_pairs \in {1, 2}
    /\ thres_prob = 0
    /\ min_dist = MinDist
    /\ symmetrize = TRUE
    /\ canonicalize = TRUE
    /\ kept = <<>> /\ out_count = 0 /\ out_set = {} /\ out_tensor = <<>>
    /\ lab = <<>>
    /\ layer = "Greedy"
    /\ con = lab_
    /\ feat = [i \in DOMAIN seq |-> OneHot(seq[i])]
    /\ ground_truth = thres_pairs
    /\ training = FALSE
    /\ sym_only = FALSE
    /\ con_ = <<>>
    /\ LayerLocalsInit
    /\ ScoresIdle
    /\ ScriptsIdle

\* binarize has returned; Greedy is called on the same arguments
CompareCallGreedy ==
    /\ pc = "bin_done"
    /\ layer = "Greedy"
    /\ pc' = "layer_call"
    /\ UNCHANGED <<scoreVars, binVars, layerVars, scriptVars>>

NextCompare ==
    \/ BinarizeEnter \/ BinarizeAccept \/ BinarizeReturn
    \/ CompareCallGreedy
    \/ LayerPreprocess \/ GreedyAccept \/ GreedyReturn

SpecCompare == InitCompare /\ [][NextCompare]_vars

\* binarize together with the filters: the code the distance and canonical
\* rules live in
SpecFilters == (InitBinarize \/ InitPre) /\ [][NextBinarize \/ NextPre]_vars

\* binarize together with the two decoders that promise a matching
SpecMatching ==
    /\ InitBinarize \/ InitGreedy \/ InitBlossom
    /\ [][NextBinarize \/ NextGreedy \/ NextBlossom]_vars

(***************************************************************************)
(* Properties                                                              *)
(***************************************************************************)
\* every row and every column of m holds at most one nonzero entry
OneEntryPerLine(m) ==
    \A r \in DOMAIN m :
        /\ Cardinality({c \in DOMAIN m : m[r][c] # 0}) <= 1
        /\ Cardinality({c \in DOMAIN m : m[c][r] # 0}) <= 1

\* C1: no index appears in more than one returned pair: the pair set returned
\* by binarize uses each index at most once, and in the eval-mode output of
\* Greedy.forward and Blossom.forward every row and column holds at most one
\* nonzero entry.
MatchingInvariant ==
    /\ pc = "bin_done" => IsMatching(out_set)
    /\ (pc = "layer_done" /\ layer \in {"Greedy", "Blossom"}) => OneEntryPerLine(out)

\* the parts of C1 that the code keeps
MatchingInvariantBinarize == pc = "bin_done" => IsMatching(out_set)

MatchingInvariantGreedy ==
    (pc = "layer_done" /\ layer = "Greedy") => OneEntryPerLine(out)

MatchingInvariantBlossomMatched ==
    (pc = "layer_done" /\ layer = "Blossom" /\ HasPositive(con_))
        => OneEntryPerLine(out)

\* C2: every pair returned by binarize has |i-j| >= min_dist; every nonzero
\* entry left by RemoveSharp has |i-j| >= 4, and RemoveSharp leaves every entry
\* with |i-j| >= 4 as it was.
DistanceInvariant ==
    /\ pc = "bin_done" => \A p \in out_set : Abs(p[1] - p[2]) >= min_dist
    /\ pc = "pre_sharp" =>
          \A r \in DOMAIN con_ : \A c \in DOMAIN con_ :
              /\ con_[r][c] # 0 => Abs(r - c) >= 4
              /\ Abs(r - c) >= 4 => con_[r][c] = con[r][c]

\* binarize returned a pair although a closer cell had a higher score
DistanceWitness ==
    /\ pc = "bin_done"
    /\ min_dist = 2
    /\ out_set # {}
    /\ \E p \in out_set :
          \E q \in Idx(Size(seq)) \X Idx(Size(seq)) :
              /\ Abs(q[1] - q[2]) < min_dist
              /\ BinLab(lab_, seq, symmetrize)[q[1]][q[2]]
                    > BinLab(lab_, seq, symmetrize)[p[1]][p[2]]

\* the six ordered symbol pairs of the canonical invariant
CanonicalSymbols ==
    {<<"A", "U">>, <<"U", "A">>, <<"C", "G">>, <<"G", "C">>,
     <<"G", "U">>, <<"U", "G">>}

\* the base a one-hot column encodes
SymbolOf(col) == CHOOSE b \in Bases : OneHot(b) = col

\* C3: with canonicalize on, every pair returned by binarize joins positions
\* whose symbols form one of AU, UA, CG, GC, GU, UG, and so does every nonzero
\* entry kept by Canonicalize for a one-hot encoded sequence.
CanonicalInvariant ==
    /\ (pc = "bin_done" /\ canonicalize) =>
          \A p \in out_set : <<seq[p[1]], seq[p[2]]>> \in CanonicalSymbols
    /\ pc = "pre_canon" =>
          \A r \in DOMAIN con_ : \A c \in DOMAIN con_ :
              con_[r][c] # 0 =>
                  <<SymbolOf(feat[r]), SymbolOf(feat[c])>> \in CanonicalSymbols

\* Canonicalize kept an entry between a C and a G
CanonicalWitness ==
    /\ pc = "pre_canon"
    /\ \E r \in DOMAIN con_ : \E c \in DOMAIN con_ :
          /\ con_[r][c] # 0
          /\ SymbolOf(feat[r]) = "C" /\ SymbolOf(feat[c]) = "G"

\* two pairs interleave: i < k < j < l
Crossing(p, q) ==
    \/ (p[1] < q[1] /\ q[1] < p[2] /\ p[2] < q[2])
    \/ (q[1] < p[1] /\ p[1] < q[2] /\ q[2] < p[2])

NonCrossing(P) == \A p \in P : \A q \in P : ~Crossing(p, q)

\* the total weight, in m, of a set of pairs
RECURSIVE PairWeight(_, _)
PairWeight(P, m) ==
    IF P = {} THEN 0
    ELSE LET p == CHOOSE x \in P : TRUE
         IN  m[p[1]][p[2]] + PairWeight(P \ {p}, m)

\* the greatest total weight of a non-crossing matching of m, by enumeration
\* (pairs of weight 0 add nothing and are left out)
BestNonCrossing(m) ==
    MaxOf({PairWeight(P, m) :
             P \in {Q \in SUBSET PairsOf(m) : IsMatching(Q) /\ NonCrossing(Q)}})

\* the greatest total weight of a matching of m, by enumeration
BestMatching(m) ==
    MaxOf({PairWeight(P, m) : P \in {Q \in SUBSET PairsOf(m) : IsMatching(Q)}})

GreedyAtMostK ==
    (pc = "layer_done" /\ layer = "Greedy") =>
        /\ Cardinality(PairsOf(out)) <= Min(ground_truth, Size(con) \div 2)
        /\ IsMatching(PairsOf(out))

\* Greedy stopped at the caller's count with a positive pair still free
GreedyAtMostKWitness ==
    /\ pc = "layer_done" /\ layer = "Greedy"
    /\ ground_truth = 1
    /\ Cardinality(PairsOf(out)) = 1
    /\ \E q \in PairsOf(con_) :
          /\ con_[q[1]][q[2]] > 0
          /\ \A p \in PairsOf(out) : {p[1], p[2]} \cap {q[1], q[2]} = {}

\* C9: the pairs kept by eval-mode Blossom.forward are all edges of positive
\* preprocessed weight, each position is in at most one of them, and their
\* total weight is the maximum over all matchings of the positive entries.
BlossomMaximumMatching ==
    (pc = "layer_done" /\ layer = "Blossom") =>
        /\ \A p \in PairsOf(out) : con_[p[1]][p[2]] > 0
        /\ IsMatching(PairsOf(out))
        /\ PairWeight(PairsOf(out), con_) = BestMatching(con_)

\* the part of C9 that the code keeps: the case with a positive entry
BlossomMaximumMatchingWithEdges ==
    (pc = "layer_done" /\ layer = "Blossom" /\ HasPositive(con_)) =>
        /\ \A p \in PairsOf(out) : con_[p[1]][p[2]] > 0
        /\ IsMatching(PairsOf(out))
        /\ PairWeight(PairsOf(out), con_)
              = MaxOf({PairWeight(P, con_) :
                         P \in {Q \in SUBSET BlossomEdges(con_) : IsMatching(Q)}})

\* C10: if the preprocessed matrix has no positive entry, the eval-mode output
\* of Blossom.forward holds no nonzero entry, negative inputs included.
BlossomEmptyWithoutEdges ==
    (pc = "layer_done" /\ layer = "Blossom" /\ ~HasPositive(con_)) =>
        \A r \in DOMAIN out : \A c \in DOMAIN out : out[r][c] = 0

\* the matrix binarize returns marks exactly the pairs of P, shifted by beg
MarksExactly(t, P, beg) ==
    \A r \in DOMAIN t : \A c \in DOMAIN t :
        t[r][c] = IF \E p \in P : \/ (r = p[1] + beg /\ c = p[2] + beg)
                                  \/ (r = p[2] + beg /\ c = p[1] + beg)
                  THEN 1 ELSE 0

\* C11: for an F x F matrix and a sequence of length L <= F, with
\* beg = floor((F - L) / 2), every pair (i, j) binarize returns has
\* 0 <= i < j < L, and the returned F x F matrix holds 1 exactly at
\* (i+beg, j+beg) and (j+beg, i+beg) of the returned pairs and 0 elsewhere.
WindowedOutput ==
    pc = "bin_done" =>
        /\ \A p \in out_set : 0 <= p[1] /\ p[1] < p[2] /\ p[2] < Size(seq)
        /\ Size(out_tensor) = Size(lab_)
        /\ MarksExactly(out_tensor, out_set, (Size(lab_) - Size(seq)) \div 2)

\* the part of C11 that the code keeps: calls with min_dist >= 1
WindowedOutputOffDiagonal ==
    (pc = "bin_done" /\ min_dist >= 1) =>
        /\ \A p \in out_set : 0 <= p[1] /\ p[1] < p[2] /\ p[2] < Size(seq)
        /\ Size(out_tensor) = Size(lab_)
        /\ MarksExactly(out_tensor, out_set, (Size(lab_) - Size(seq)) \div 2)

\* the matrix m holds no nonzero entry
AllZero(m) == \A r \in DOMAIN m : \A c \in DOMAIN m : m[r][c] = 0

\* C12: an all-zero score matrix yields an empty pair set from binarize, from
\* Greedy and from Blossom, for every sequence and every target pair count.
ZeroMatrixNoPairs ==
    /\ (pc = "bin_done" /\ AllZero(lab_)) => out_set = {}
    /\ (pc = "layer_done" /\ AllZero(con)) => PairsOf(out) = {}

\* the part of C12 that the code keeps: the decoder layers
ZeroMatrixNoPairsLayers ==
    (pc = "layer_done" /\ AllZero(con)) => PairsOf(out) = {}

\* C19: no pair binarize returns has a score below thres_prob, and with the
\* default thres_prob = 0 no returned pair has a score <= 0.
ScoreFloor ==
    pc = "bin_done" =>
        \A p \in out_set :
            LET score == BinLab(lab_, seq, symmetrize)[p[1]][p[2]]
            IN  /\ score >= thres_prob
                /\ thres_prob = 0 => score > 0

\* C14: Symmetrize.forward, RemoveSharp.forward and Canonicalize.forward each
\* leave the matrix passed to them unchanged and return a matrix of the same
\* shape.
FiltersPure ==
    [][pc' \in {"pre_sym", "pre_sharp", "pre_canon"} =>
          /\ con' = con_
          /\ DOMAIN con_' = DOMAIN con_]_vars

\* the part of C14 that the code keeps: Symmetrize and RemoveSharp
FiltersPureSymmetrizeRemoveSharp ==
    [][pc' \in {"pre_sym", "pre_sharp"} =>
          /\ con' = con_
          /\ DOMAIN con_' = DOMAIN con_]_vars

\* C15: Symmetrize returns the matrix of the means (M[i][j] + M[j][i]) / 2,
\* which is symmetric, and applying Symmetrize to its result changes nothing.
SymmetrizeIdempotent ==
    pc = "pre_sym" =>
        /\ \A r \in DOMAIN con_ : \A c \in DOMAIN con_ :
              /\ 2 * con_[r][c] = con[r][c] + con[c][r]
              /\ con_[r][c] = con_[c][r]
        /\ Symmetrize(con_) = con_

\* Symmetrize was given a matrix that was not symmetric
SymmetrizeIdempotentWitness ==
    /\ pc = "pre_sym"
    /\ \E r \in DOMAIN con : \E c \in DOMAIN con :
          con[r][c] # con[c][r] /\ con_[r][c] # 0

\* C20: the selection loop of binarize always terminates; when the cells are
\* exhausted before thres_pairs pairs were accepted it returns the smaller
\* set, and the returned set never holds more than thres_pairs pairs.
BinarizeTerminates ==
    /\ <>(pc = "bin_done")
    /\ [](pc = "bin_done" => Cardinality(out_set) <= thres_pairs)

\* binarize returned one pair although two were asked for
BinarizeTerminatesWitness ==
    /\ pc = "bin_done"
    /\ thres_pairs = 2
    /\ Cardinality(out_set) = 1
    /\ BinAcceptable(BinLab(lab_, seq, symmetrize), seq, min_dist,
                     canonicalize, kept) = {}

\* C17: a call of binarize whose sequence is longer than the side of the
\* matrix fails at its start: it reaches neither the loop nor the return, and
\* yields no pair set and no matrix.
ShapeMismatchFails ==
    Size(seq) > Size(lab_) => pc \notin {"bin_loop", "bin_done"}

\* C18: with canonicalize on, a call of binarize whose sequence holds a
\* character outside A, C, G, U fails with an error and returns no result.
UnknownSymbolFails ==
    (canonicalize /\ \E i \in DOMAIN seq : seq[i] \notin Bases) => pc # "bin_done"

\* C16: for the sequence ACGU and the matrix with M[0][3] = M[3][0] = 0.9 and
\* 0 elsewhere, Greedy and Dynamic both yield {(0, 3)}, and scoring that result
\* against the reference {(0, 3)} gives tp = 1, fp = 0, fn = 0, f1 = 1.0 and
\* mcc = 1.0.
ScenarioA ==
    (/\ pc = "scenario_scored"
     /\ con[0][3] = 18
     /\ feat = [i \in Idx(4) |->
                  OneHot(IF i = 0 THEN "A" ELSE IF i = 1 THEN "C"
                         ELSE IF i = 2 THEN "G" ELSE "U")])
    => /\ prd_pairs = {<<0, 3>>}
       /\ scores.tp = 1 /\ scores.fp = 0 /\ scores.fn = 0
       /\ scores.f1 = FracOne
       /\ MccIsOne(scores.mcc)

\* C13: for the same unpadded matrix, the same sequence, minimum distance 4,
\* symmetrize and canonicalize on and the same pair count, the pair set
\* binarize returns equals the set of pairs with a nonzero entry in the
\* eval-mode output of Greedy.forward.
BinarizeEqualsGreedy ==
    (pc = "layer_done" /\ layer = "Greedy" /\ lab_ = con) =>
        out_set = PairsOf(out)

\* C13 narrowed to the calls in which neither function accepted a cell of
\* score 0
BinarizeEqualsGreedyScored ==
    (/\ pc = "layer_done" /\ layer = "Greedy" /\ lab_ = con
     /\ \A p \in out_set : con_[p[1]][p[2]] # 0
     /\ \A r \in DOMAIN one_mask : \A c \in DOMAIN one_mask :
           one_mask[r][c] => con_[r][c] # 0)
    => out_set = PairsOf(out)

\* C21: while walking the sorted cells Greedy skips every cell whose score
\* is <= 0: a cell that was accepted into one_mask has a positive score, an
\* index is marked in memo only by an accepted cell of positive score, and
\* num_pairs counts the accepted pairs of positive score only.
GreedySkipsNonPositive ==
    (layer = "Greedy" /\ pc \in {"layer_decode", "layer_done"}) =>
        /\ \A p \in Cells(one_mask) :
              one_mask[p[1]][p[2]] => con_[p[1]][p[2]] > 0
        /\ \A i \in DOMAIN memo :
              memo[i] => \E c \in DOMAIN memo : one_mask[i][c] /\ con_[i][c] > 0
        /\ num_pairs = Cardinality({p \in Cells(con_) :
                           p[1] <= p[2] /\ one_mask[p[1]][p[2]] /\ con_[p[1]][p[2]] > 0})

\* C23: every nonzero entry of the eval-mode output of Greedy.forward is
\* strictly positive, whatever negative entries the input holds and whatever
\* the cap is.
GreedyOutputPositive ==
    (layer = "Greedy" /\ pc = "layer_done") =>
        \A p \in Cells(out) : out[p[1]][p[2]] # 0 => out[p[1]][p[2]] > 0

\* C23 witness: Greedy has returned, without a caller's cap, on a filtered
\* matrix with a negative entry whose two indices carry no kept pair, and a
\* positive pair was kept.
GreedyOutputPositiveWitness ==
    /\ layer = "Greedy" /\ pc = "layer_done"
    /\ ground_truth = Infinity
    /\ \E p \in Cells(con_) :
          /\ con_[p[1]][p[2]] < 0
          /\ \A c \in DOMAIN out : out[p[1]][c] = 0 /\ out[p[2]][c] = 0
    /\ \E p \in Cells(out) : out[p[1]][p[2]] > 0

\* the flattened index of the cell <<i, j>> of Greedy: i = idx % L, j = idx // L
GreedyFlatIndex(p, L) == p[2] * L + p[1]

\* the one_mask a walk in descending score order, ties by ascending flattened
\* index, ends with
RECURSIVE GreedyStableMask(_, _, _, _, _)
GreedyStableMask(m, mm, mask, n, cap) ==
    IF n = cap \/ GreedyAcceptable(m, mm) = {} THEN mask
    ELSE LET top == GreedyNextAccepted(m, mm)
             p == CHOOSE q \in top : \A r \in top :
                      GreedyFlatIndex(q, Size(m)) <= GreedyFlatIndex(r, Size(m))
         IN  GreedyStableMask(m, [mm EXCEPT ![p[1]] = TRUE, ![p[2]] = TRUE],
                              mask \cup {p, <<p[2], p[1]>>}, n + 1, cap)

\* C22: Greedy decoding is deterministic: ties are broken by ascending
\* flattened index, so the pair set Greedy.forward returns is the one of the
\* walk in that order, the same at every run on the same input.
GreedyDeterministic ==
    (layer = "Greedy" /\ pc = "layer_done") =>
        PairsOf(out) =
            LET mask == GreedyStableMask(con_, [i \in DOMAIN con_ |-> FALSE], {}, 0,
                                         GreedyCap(ground_truth, Size(con_)))
            IN  {p \in Cells(con_) :
                    p[1] < p[2] /\ p \in mask /\ con_[p[1]][p[2]] # 0}

TrainingBypass ==
    /\ (pc = "layer_done" /\ layer \in {"Greedy", "Blossom"}
            /\ (training \/ sym_only)) =>
          /\ out = Symmetrize(con)
          /\ con_ = <<>> /\ memo = <<>> /\ one_mask = <<>> /\ num_pairs = 0
    /\ (pc = "layer_done" /\ layer = "Dynamic" /\ training) =>
          /\ out = con
          /\ con_ = <<>>
    /\ pc = "layer_decode" => ~training

\* C26 witness: Greedy has returned in training mode a matrix that differs from
\* its input and holds a score next to the diagonal.
TrainingBypassWitness ==
    /\ pc = "layer_done" /\ layer = "Greedy" /\ training /\ ~sym_only
    /\ out # con
    /\ \E p \in Cells(out) : Abs(p[1] - p[2]) < MinDist /\ out[p[1]][p[2]] # 0
\* C25: to_pairs applied to the dense matrix returned by binarize, with the
\* same sequence length, returns exactly the pair set returned by binarize.
RoundTrip ==
    pc = "pairs_done" => grd_pairs = out_set

\* the round trip holds for the pairs off the diagonal
RoundTripOffDiagonal ==
    pc = "pairs_done" => grd_pairs = {p \in out_set : p[1] # p[2]}

\* C27: in every iteration of the training loop of train the gradients that
\* loss.backward() computed for the batch are still present when
\* optimizer.step() runs: nothing resets them between the backward pass and
\* the step.
GradientsPresentAtStep ==
    /\ pc = "train_zero_grad" => grads >= 1
    /\ pc \in {"train_batch", "train_backward", "train_zero_grad", "train_done"} =>
          \A k \in 1..Len(steps) : steps[k] >= 1

\* C28: with iter_acc = n every optimizer step of main is taken on the
\* gradients of exactly n batches, accumulated since the previous step or
\* since the start of training, and the gradients are reset only right after
\* a step.
AccumulatesExactly ==
    /\ [](pc \in {"main_batch", "main_backward", "main_done"} =>
              \A k \in 1..Len(steps) : steps[k] = iter_acc)
    /\ [][(pc = "main_backward" /\ grads' = 0) => Len(steps') = Len(steps) + 1]_vars

\* C29: predict uses the best checkpoint when it can be loaded and goes on to
\* predict, falls back to the training checkpoint when it cannot, and raises
\* FileNotFoundError only when neither checkpoint is available.
CheckpointFallback ==
    /\ pc = "predict_error" =>
          raised = "FileNotFoundError" /\ ~best_ok /\ ~chk_ok
    /\ pc \in {"predict_else", "predict_error"} /\ best_ok => raised = "none"
    /\ pc \in {"predict_except", "predict_error"} /\ ~best_ok /\ chk_ok =>
          raised = "none"

====
